---- MODULE Spec2Model ----
(***************************************************************************)
(* Model of the MCP4802/4812/4822 dual-channel SPI DAC driver              *)
(* (src/MCP48xx.py, class MCP48XX).                                        *)
(*                                                                         *)
(* One action per public operation of the class; each action is the whole  *)
(* call, including the frame it builds and the chip-select framed bus      *)
(* write, whose pin and bus events are recorded in `trace`.                *)
(*                                                                         *)
(* The driver runs on MicroPython (it imports `machine` and `utime`), where*)
(* a store into a bytearray element keeps the low eight bits of the value  *)
(* (StoreByte).                                                            *)
(***************************************************************************)
EXTENDS Integers, Sequences, FiniteSets, TLC

\* ---------------------------------------------------------------- bounds
\* Input values are taken within Margin of the byte boundary (where the low
\* byte of the frame wraps) and of the top of the configured range, next to
\* zero and one negative value.
Margin == 1

\* ------------------------------------------------------- program constants
MCP4822 == 12
MCP4812 == 10
MCP4802 == 8

HIGH == 1
LOW == 0

CHAN_B == 1
CHAN_A == 0

VARIABLES
    device,            \* "none" before the constructor ran, "ready", "failed"
    created,           \* pin / bus objects created by the constructor, in order
    model,             \* self.model
    max,               \* self.max
    on_A, on_B,        \* self.on_A, self.on_B
    gain_A, gain_B,    \* self.gain_A, self.gain_B
    raw_value_A, raw_value_B,
    dataA, dataB,      \* self.dataA / self.dataB: last buffer built (<<>> = unset)
    chipselect_state,  \* self.chipselect_state
    call,              \* the last public call: [op, value]
    result,            \* how it ended: "ok", "ValueError", "WriteError"
    trace              \* pin and bus events of the last public call

vars == <<device, created, model, max, on_A, on_B, gain_A, gain_B,
          raw_value_A, raw_value_B, dataA, dataB, chipselect_state,
          call, result, trace>>

\* ------------------------------------------------------------ bit helpers
RECURSIVE BitOr(_, _)
BitOr(a, b) ==
    IF a = 0 THEN b
    ELSE IF b = 0 THEN a
    ELSE (IF a % 2 = 1 \/ b % 2 = 1 THEN 1 ELSE 0) + 2 * BitOr(a \div 2, b \div 2)

RECURSIVE BitAnd(_, _)
BitAnd(a, b) ==
    IF a = 0 \/ b = 0 THEN 0
    ELSE (IF a % 2 = 1 /\ b % 2 = 1 THEN 1 ELSE 0) + 2 * BitAnd(a \div 2, b \div 2)

Shr(a, n) == a \div (2 ^ n)

Bit(x, n) == (x \div (2 ^ n)) % 2

\* A store into a bytearray element keeps the low eight bits.
StoreByte(v) == v % 256

\* ------------------------------------------------------------ frame build
\* `raw >> 8 & 15`: the shift binds tighter than the mask.
HighNibble_mask7(raw) == BitAnd(Shr(raw, 8), 7)

HighNibble(raw) == BitAnd(Shr(raw, 8), 15)

GainBit_bit6(gain) == IF gain THEN 2 ^ 6 ELSE 0

GainBit(gain) == IF gain THEN 2 ^ 5 ELSE 0

PowerBit_always(on) == 2 ^ 4

PowerBit(on) == IF on THEN 2 ^ 4 ELSE 0

\* The two-byte buffer updateDAC_per_chan builds for `channel` from the
\* fields s of the device.
BuildBuf(channel, s) ==
    IF channel = CHAN_B
    THEN LET b0 == BitOr(0, 2 ^ 7)
             b1 == BitOr(b0, GainBit(s.gain_B))
             b2 == BitOr(b1, PowerBit(s.on_B))
             b3 == BitOr(b2, HighNibble(s.raw_value_B))
         IN  <<StoreByte(b3), StoreByte(s.raw_value_B)>>
    ELSE LET b1 == BitOr(0, GainBit(s.gain_A))
             b2 == BitOr(b1, PowerBit(s.on_A))
             b3 == BitOr(b2, HighNibble(s.raw_value_A))
         IN  <<StoreByte(b3), StoreByte(s.raw_value_A)>>

\* ---------------------------------------------------------- bus transfer
CsEvent(level) ==
    [ev |-> IF level = HIGH THEN "high" ELSE "low", buf |-> <<>>, raised |-> FALSE]

WriteEvent(buf, fail) == [ev |-> "write", buf |-> buf, raised |-> fail]

\* try: chipSelectLow(); spi.write(buf)   finally: chipSelectHigh()
Transfer_nofinally(buf, fail) ==
    IF fail THEN <<CsEvent(LOW), WriteEvent(buf, fail)>>
    ELSE <<CsEvent(LOW), WriteEvent(buf, fail), CsEvent(HIGH)>>

Transfer(buf, fail) == <<CsEvent(LOW), WriteEvent(buf, fail), CsEvent(HIGH)>>

\* self.chipselect_state after the events of t, starting from level cs.
RECURSIVE CsAfter(_, _)
CsAfter(cs, t) ==
    IF t = <<>> THEN cs
    ELSE CsAfter(IF Head(t).ev = "high" THEN HIGH
                 ELSE IF Head(t).ev = "low" THEN LOW ELSE cs, Tail(t))

Fields == [on_A |-> on_A, on_B |-> on_B, gain_A |-> gain_A, gain_B |-> gain_B,
           raw_value_A |-> raw_value_A, raw_value_B |-> raw_value_B]

\* ------------------------------------------------------------------ inputs
Models == {MCP4802, MCP4812, MCP4822, 16}

Near(b) == (b - Margin) .. (b + Margin)

Values == {-1, 0} \cup Near(2 ^ 8) \cup Near(2 ^ model)

\* The record of a call; a call without argument records 0.
Call(name, value) == [op |-> name, value |-> value]

\* ------------------------------------------------------------------- Init
Init ==
    /\ device = "none"
    /\ created = <<>>
    /\ model = 0
    /\ max = 0
    /\ on_A = FALSE /\ on_B = FALSE
    /\ gain_A = FALSE /\ gain_B = FALSE
    /\ raw_value_A = 0 /\ raw_value_B = 0
    /\ dataA = <<>> /\ dataB = <<>>
    /\ chipselect_state = LOW
    /\ call = Call("none", 0)
    /\ result = "ok"
    /\ trace = <<>>

\* ------------------------------------------------------------ constructor
ValidModel(m) == m = MCP4822 \/ m = MCP4812 \/ m = MCP4802

\* MCP48XX.__init__(model, ...)
Construct ==
    /\ device = "none"
    /\ \E m \in Models :
        /\ call' = Call("__init__", m)
        /\ IF ~ValidModel(m)
           THEN /\ device' = "failed"
                /\ created' = <<"chipselect_pin">>
                /\ result' = "ValueError"
                /\ UNCHANGED <<model, max, on_A, on_B, gain_A, gain_B,
                               raw_value_A, raw_value_B, dataA, dataB,
                               chipselect_state, trace>>
           ELSE /\ device' = "ready"
                /\ created' = <<"chipselect_pin", "sck", "mosi", "miso", "spi">>
                /\ model' = m
                /\ max' = 2 ^ m
                /\ on_A' = FALSE /\ on_B' = FALSE
                /\ gain_A' = FALSE /\ gain_B' = FALSE
                /\ raw_value_A' = 0 /\ raw_value_B' = 0
                /\ chipselect_state' = HIGH
                /\ trace' = <<CsEvent(HIGH)>>
                /\ result' = "ok"
                /\ UNCHANGED <<dataA, dataB>>

\* ------------------------------------------------------- state mutators
\* The assignment each mutator makes, on the record s of the device fields.
TurnOnA_wrongchan(s) == [s EXCEPT !.on_B = TRUE]

TurnOnA(s) == [s EXCEPT !.on_A = TRUE]

TurnOnB(s) == [s EXCEPT !.on_B = TRUE]

ShutdownA(s) == [s EXCEPT !.on_A = FALSE]

ShutdownB(s) == [s EXCEPT !.on_B = FALSE]

SetGainA_both(s) == [s EXCEPT !.gain_A = TRUE, !.gain_B = TRUE]

SetGainA(s) == [s EXCEPT !.gain_A = TRUE]

SetGainB(s) == [s EXCEPT !.gain_B = TRUE]

\* The next state's fields are those of the record s.
Store(s) ==
    /\ on_A' = s.on_A /\ on_B' = s.on_B
    /\ gain_A' = s.gain_A /\ gain_B' = s.gain_B
    /\ raw_value_A' = s.raw_value_A /\ raw_value_B' = s.raw_value_B

\* A mutator call: fields change, nothing reaches the pin or the bus.
Mutator(name, s) ==
    /\ device = "ready"
    /\ call' = Call(name, 0)
    /\ result' = "ok"
    /\ trace' = <<>>
    /\ Store(s)
    /\ UNCHANGED <<device, created, model, max, dataA, dataB, chipselect_state>>

turnOnChannelA == Mutator("turnOnChannelA", TurnOnA(Fields))

turnOnChannelB == Mutator("turnOnChannelB", TurnOnB(Fields))

shutdownChannelA == Mutator("shutdownChannelA", ShutdownA(Fields))

shutdownChannelB == Mutator("shutdownChannelB", ShutdownB(Fields))

setGainA == Mutator("setGainA", SetGainA(Fields))

setGainB == Mutator("setGainB", SetGainB(Fields))

\* ---------------------------------------------------------------- setValue
Underflow(value) == value < 0

Overflow_offbyone(value, mx) == value > mx

Overflow(value, mx) == value >= mx

\* A call rejected by the range checks: the exception leaves before any
\* assignment.
Rejected(name, value) ==
    /\ call' = Call(name, value)
    /\ result' = "ValueError"
    /\ trace' = <<>>
    /\ UNCHANGED <<device, created, model, max, on_A, on_B, gain_A, gain_B,
                   raw_value_A, raw_value_B, dataA, dataB, chipselect_state>>

\* The tail of every call that reaches the bus: the events t, the level the
\* chip-select is left at, and the error of a failed write.
Transmitted(name, value, t, fail) ==
    /\ call' = Call(name, value)
    /\ result' = IF fail THEN "WriteError" ELSE "ok"
    /\ trace' = t
    /\ chipselect_state' = CsAfter(chipselect_state, t)
    /\ UNCHANGED <<device, created, model, max>>

setValueA ==
    /\ device = "ready"
    /\ \E value \in Values, fail \in BOOLEAN :
        IF Underflow(value) \/ Overflow(value, max)
        THEN Rejected("setValueA", value)
        ELSE LET s   == [TurnOnA(Fields) EXCEPT !.raw_value_A = value]
                 buf == BuildBuf(CHAN_A, s)
             IN  /\ Store(s)
                 /\ dataA' = buf
                 /\ UNCHANGED dataB
                 /\ Transmitted("setValueA", value, Transfer(buf, fail), fail)

setValueB ==
    /\ device = "ready"
    /\ \E value \in Values, fail \in BOOLEAN :
        IF Underflow(value) \/ Overflow(value, max)
        THEN Rejected("setValueB", value)
        ELSE LET s   == [TurnOnB(Fields) EXCEPT !.raw_value_B = value]
                 buf == BuildBuf(CHAN_B, s)
             IN  /\ Store(s)
                 /\ dataB' = buf
                 /\ UNCHANGED dataA
                 /\ Transmitted("setValueB", value, Transfer(buf, fail), fail)

\* --------------------------------------------------------------- updateDAC
\* The order in which updateDAC calls updateDAC_per_chan.
UpdateOrder_BA == <<CHAN_B, CHAN_A>>

UpdateOrder == <<CHAN_A, CHAN_B>>

\* The channels updateDAC reaches when write number failAt raises (0: none).
Reached_all(failAt) == {UpdateOrder[1], UpdateOrder[2]}

Reached(failAt) ==
    IF failAt = 1 THEN {UpdateOrder[1]} ELSE {UpdateOrder[1], UpdateOrder[2]}

UpdateTrace(s, failAt) ==
    LET t1 == Transfer(BuildBuf(UpdateOrder[1], s), failAt = 1)
        t2 == Transfer(BuildBuf(UpdateOrder[2], s), failAt = 2)
    IN  IF UpdateOrder[2] \in Reached(failAt) THEN t1 \o t2 ELSE t1

updateDAC ==
    /\ device = "ready"
    /\ \E failAt \in 0 .. 2 :
        /\ UNCHANGED <<on_A, on_B, gain_A, gain_B, raw_value_A, raw_value_B>>
        /\ dataA' = IF CHAN_A \in Reached(failAt)
                    THEN BuildBuf(CHAN_A, Fields) ELSE dataA
        /\ dataB' = IF CHAN_B \in Reached(failAt)
                    THEN BuildBuf(CHAN_B, Fields) ELSE dataB
        /\ Transmitted("updateDAC", 0, UpdateTrace(Fields, failAt),
                       failAt # 0)

\* ------------------------------------------------------------ specification
Next ==
    \/ Construct
    \/ setValueA
    \/ setValueB
    \/ updateDAC
    \/ turnOnChannelA
    \/ turnOnChannelB
    \/ shutdownChannelA
    \/ shutdownChannelB
    \/ setGainA
    \/ setGainB

Spec == Init /\ [][Next]_vars

\* ------------------------------------------------- reading a trace back
\* The bus writes among the events t, in order.
Writes(t) == SelectSeq(t, LAMBDA e : e.ev = "write")

\* The 16-bit word of a two-byte buffer sent high byte first.
Word(buf) == buf[1] * 256 + buf[2]

\* The 12-bit data field: low nibble of byte 0 followed by byte 1.
DataField(buf) == (buf[1] % 16) * 256 + buf[2]

\* The frame of the bit layout: 15 channel, 14 zero, 13 gain, 12 power,
\* 11-0 data.
ExpectedWord(channel, gain, on, raw) ==
    channel * 2 ^ 15 + (IF gain THEN 2 ^ 13 ELSE 0)
        + (IF on THEN 2 ^ 12 ELSE 0) + raw

\* The channels whose frames call c sends, in order, when nothing fails.
ChanSeq(c) ==
    IF c.op = "setValueA" THEN <<CHAN_A>>
    ELSE IF c.op = "setValueB" THEN <<CHAN_B>>
    ELSE IF c.op = "updateDAC" THEN <<CHAN_A, CHAN_B>>
    ELSE <<>>

OutOfRange(c) == c.value < 0 \/ c.value >= 2 ^ model

IsSetValue(c) == c.op \in {"setValueA", "setValueB"}

Resolutions == {MCP4802, MCP4812, MCP4822}

\* ------------------------------------------------------------------ claims

\* C1: for every resolution and device state, setValueA / setValueB with
\* value < 0 or value >= 2^r fails with a range error, and the failing call
\* changes none of raw_value_A, raw_value_B, on_A, on_B, gain_A, gain_B,
\* makes no chip-select transition and performs no bus write.
C1_RangeErrorNoEffect ==
    [][ (device = "ready" /\ IsSetValue(call') /\ OutOfRange(call'))
          => /\ result' = "ValueError"
             /\ trace' = <<>>
             /\ UNCHANGED <<raw_value_A, raw_value_B, on_A, on_B,
                            gain_A, gain_B, chipselect_state>> ]_vars

C1_Witness ==
    /\ call.op = "setValueB" /\ call.value >= max /\ result = "ValueError"
    /\ model = MCP4812 /\ raw_value_B > 0 /\ on_B /\ gain_A /\ trace = <<>>

\* C2: in every transfer, chip-select goes low strictly before the bus write
\* begins and goes high exactly once after the write, whether the write
\* completes or raises; every call that passes the range checks makes such
\* a transfer.
C2_ChipSelectFraming ==
    /\ \A i \in 1 .. Len(trace) :
          trace[i].ev = "write" =>
             /\ i > 1 /\ trace[i - 1].ev = "low"
             /\ i < Len(trace) /\ trace[i + 1].ev = "high"
             /\ (i + 2 <= Len(trace) => trace[i + 2].ev = "low")
    /\ (device = "ready" /\ ChanSeq(call) # <<>> /\ result # "ValueError")
          => Len(Writes(trace)) >= 1
    /\ device = "ready" => chipselect_state = HIGH

C2_Witness ==
    /\ call.op = "updateDAC" /\ Len(trace) = 6
    /\ trace[2].ev = "write" /\ ~trace[2].raised
    /\ trace[5].ev = "write" /\ trace[5].raised
    /\ trace[6].ev = "high"

\* C3: for every resolution, channel and value in [0, 2^r), the two-byte
\* frame setValueA / setValueB writes has a 12-bit data field that decodes to
\* exactly value, also for values above 255.
C3_DataRoundTrip ==
    (device = "ready" /\ IsSetValue(call) /\ result # "ValueError")
       => /\ model \in Resolutions
          /\ call.value \in 0 .. (2 ^ model - 1)
          /\ Len(Writes(trace)) = 1
          /\ LET buf == Writes(trace)[1].buf
             IN  /\ Len(buf) = 2
                 /\ buf[1] \in 0 .. 255 /\ buf[2] \in 0 .. 255
                 /\ DataField(buf) = call.value

C3_Witness ==
    /\ call.op = "setValueB" /\ result = "ok" /\ model = MCP4822
    /\ call.value = 4095 /\ DataField(trace[2].buf) = 4095

\* C5: in every transmitted frame bit 15 is 1 iff the frame is for channel
\* B, bit 14 is 0, bit 13 is 1 iff setGain was called for that channel since
\* construction, bit 12 is 1 iff that channel is enabled when the frame is
\* sent; setGainB() then setValueB(0) at resolution 12 transmits 0xB000.
C5_ControlBits ==
    [][ device' = "ready" =>
          /\ gain_A' = (call'.op # "__init__" /\ (gain_A \/ call'.op = "setGainA"))
          /\ gain_B' = (call'.op # "__init__" /\ (gain_B \/ call'.op = "setGainB"))
          /\ \A k \in 1 .. Len(Writes(trace')) :
                LET w  == Word(Writes(trace')[k].buf)
                    ch == ChanSeq(call')[k]
                IN  /\ Bit(w, 15) = (IF ch = CHAN_B THEN 1 ELSE 0)
                    /\ Bit(w, 14) = 0
                    /\ Bit(w, 13) =
                         (IF (IF ch = CHAN_B THEN gain_B' ELSE gain_A') THEN 1 ELSE 0)
                    /\ Bit(w, 12) =
                         (IF (IF ch = CHAN_B THEN on_B' ELSE on_A') THEN 1 ELSE 0)
          /\ (call.op = "setGainB" /\ call'.op = "setValueB" /\ call'.value = 0
                /\ model = MCP4822)
                => Word(Writes(trace')[1].buf) = 45056 ]_vars

C5_Witness ==
    /\ call.op = "setValueB" /\ call.value = 0 /\ model = MCP4822
    /\ gain_B /\ ~gain_A /\ Word(trace[2].buf) = 45056

C4_NothingCreatedOnBadModel ==
    (call.op = "__init__" /\ call.value \notin Resolutions)
       => /\ device = "failed"
          /\ result = "ValueError"
          /\ created = <<>>

\* The one complete transaction that carries the word wd.
Transaction(wd, t) ==
    /\ Len(t) = 3
    /\ t[1] = CsEvent(LOW)
    /\ t[2].ev = "write" /\ Word(t[2].buf) = wd
    /\ t[3] = CsEvent(HIGH)

\* C7: a successful setValueA(value) marks channel A enabled, stores value as
\* its raw value and performs exactly one bus transaction carrying channel
\* A's frame; channel B's enabled flag, gain flag, raw value and last-sent
\* frame are unchanged and no frame for channel B is transmitted.  The same
\* for setValueB with A and B swapped.
C7_SetValueOneChannel ==
    [][ /\ (device = "ready" /\ call'.op = "setValueA" /\ result' = "ok") =>
             /\ on_A' /\ raw_value_A' = call'.value
             /\ Transaction(ExpectedWord(CHAN_A, gain_A, TRUE, call'.value), trace')
             /\ ~trace'[2].raised
             /\ dataA' = trace'[2].buf
             /\ UNCHANGED <<on_B, gain_B, raw_value_B, dataB, gain_A>>
        /\ (device = "ready" /\ call'.op = "setValueB" /\ result' = "ok") =>
             /\ on_B' /\ raw_value_B' = call'.value
             /\ Transaction(ExpectedWord(CHAN_B, gain_B, TRUE, call'.value), trace')
             /\ ~trace'[2].raised
             /\ dataB' = trace'[2].buf
             /\ UNCHANGED <<on_A, gain_A, raw_value_A, dataA, gain_B>> ]_vars

C7_Witness ==
    /\ call.op = "setValueA" /\ result = "ok" /\ call.value > 255
    /\ on_A /\ raw_value_A = call.value
    /\ dataB # <<>> /\ ~on_B /\ gain_B /\ raw_value_B > 0
    /\ raw_value_B # raw_value_A
    /\ Bit(Word(dataB), 12) = 1

\* C8: setGainA, setGainB, turnOnChannelA, turnOnChannelB, shutdownChannelA
\* and shutdownChannelB each change only the one flag of the named channel:
\* no chip-select transition, no bus write, raw values and every other flag
\* unchanged.
C8_MutatorsStateOnly ==
    [][ LET quiet == /\ trace' = <<>>
                     /\ result' = "ok"
                     /\ UNCHANGED <<chipselect_state, raw_value_A, raw_value_B,
                                    dataA, dataB>>
        IN  /\ call'.op = "setGainA" =>
                 quiet /\ gain_A' /\ UNCHANGED <<gain_B, on_A, on_B>>
            /\ call'.op = "setGainB" =>
                 quiet /\ gain_B' /\ UNCHANGED <<gain_A, on_A, on_B>>
            /\ call'.op = "turnOnChannelA" =>
                 quiet /\ on_A' /\ UNCHANGED <<gain_A, gain_B, on_B>>
            /\ call'.op = "turnOnChannelB" =>
                 quiet /\ on_B' /\ UNCHANGED <<gain_A, gain_B, on_A>>
            /\ call'.op = "shutdownChannelA" =>
                 quiet /\ ~on_A' /\ UNCHANGED <<gain_A, gain_B, on_B>>
            /\ call'.op = "shutdownChannelB" =>
                 quiet /\ ~on_B' /\ UNCHANGED <<gain_A, gain_B, on_A>> ]_vars

C8_Witness ==
    /\ call.op = "setGainA" /\ gain_A /\ ~gain_B
    /\ on_B /\ raw_value_B > 255 /\ raw_value_A > 0
    /\ trace = <<>> /\ chipselect_state = HIGH
    /\ dataA # <<>> /\ Bit(Word(dataA), 13) = 0

\* C9: updateDAC() with a non-failing bus performs exactly two complete
\* chip-select framed transactions, first the frame of channel A and then
\* the frame of channel B, each built from the channel's current state, the
\* first chip-select returning high before the second goes low.
C9_UpdateBothInOrder ==
    (device = "ready" /\ call.op = "updateDAC" /\ result = "ok")
       => /\ Len(trace) = 6
          /\ Transaction(ExpectedWord(CHAN_A, gain_A, on_A, raw_value_A),
                         SubSeq(trace, 1, 3))
          /\ Transaction(ExpectedWord(CHAN_B, gain_B, on_B, raw_value_B),
                         SubSeq(trace, 4, 6))
          /\ ~trace[2].raised /\ ~trace[5].raised

C9_Witness ==
    /\ call.op = "updateDAC" /\ result = "ok" /\ Len(trace) = 6
    /\ on_A /\ ~on_B /\ gain_B /\ ~gain_A
    /\ raw_value_A > 255 /\ raw_value_B > 0 /\ raw_value_A # raw_value_B

\* C10: when the bus write raises during an in-range setValueA / setValueB,
\* the error reaches the caller with chip-select high and the channel's state
\* committed (enabled, raw value = value), after a single write attempt; a
\* following updateDAC() on a working bus transmits the frame carrying the
\* new value.  During updateDAC(), a write failure on channel A's
\* transaction means no transaction for channel B is attempted.
C10_WriteFailure ==
    [][ device = "ready" =>
          /\ (call'.op = "setValueA" /\ ~OutOfRange(call') /\ trace'[2].raised) =>
                /\ result' = "WriteError"
                /\ chipselect_state' = HIGH
                /\ on_A' /\ raw_value_A' = call'.value
                /\ Len(Writes(trace')) = 1
          /\ (call'.op = "setValueB" /\ ~OutOfRange(call') /\ trace'[2].raised) =>
                /\ result' = "WriteError"
                /\ chipselect_state' = HIGH
                /\ on_B' /\ raw_value_B' = call'.value
                /\ Len(Writes(trace')) = 1
          /\ (call.op = "setValueA" /\ result = "WriteError"
                /\ call'.op = "updateDAC" /\ result' = "ok") =>
                Word(Writes(trace')[1].buf)
                   = ExpectedWord(CHAN_A, gain_A, TRUE, call.value)
          /\ (call.op = "setValueB" /\ result = "WriteError"
                /\ call'.op = "updateDAC" /\ result' = "ok") =>
                Word(Writes(trace')[2].buf)
                   = ExpectedWord(CHAN_B, gain_B, TRUE, call.value)
          /\ (call'.op = "updateDAC" /\ trace'[2].raised) =>
                /\ result' = "WriteError"
                /\ Len(trace') = 3
                /\ chipselect_state' = HIGH
                /\ UNCHANGED dataB ]_vars

C10_Witness ==
    /\ call.op = "setValueB" /\ result = "WriteError" /\ call.value > 255
    /\ on_B /\ raw_value_B = call.value /\ chipselect_state = HIGH
    /\ Len(trace) = 3 /\ trace[2].raised

====
